---- MODULE Spec2Model ----
(***************************************************************************)
(* Recording lifecycle of the Neuryx voice widget (frontend/src/App.tsx).  *)
(*                                                                         *)
(* The component keeps four pieces of React state (isRecording, status,    *)
(* liveText, detectedLang) and two refs (mediaRecorderRef, chunksRef).     *)
(* Every call of startRecording creates its own closure: a microphone      *)
(* stream, a MediaRecorder and the recorder's two handlers.  The calls are *)
(* numbered 1, 2, ... in the order in which they are made; call number s   *)
(* is "session s".  All code runs on the browser's event loop, so each     *)
(* action below is one task: the code between two suspension points.       *)
(*                                                                         *)
(* The suspension points of a session are                                  *)
(*   - await getUserMedia            (App.tsx line 23)                     *)
(*   - recorder.stop() .. stop task  (line 83 .. lines 27-48)              *)
(*   - await fetch / response.json() (lines 45-50)                         *)
(*                                                                         *)
(* mediaRecorder.start() is called without a timeslice (line 71), so the   *)
(* recorder delivers its data in one dataavailable event, fired by the     *)
(* task that recorder.stop() queues, immediately before the stop event.    *)
(***************************************************************************)
EXTENDS Integers, Sequences, FiniteSets, TLC

\* Number of startRecording calls explored.
MaxSessions == 2

Sessions == 1..MaxSessions

\* JavaScript null (detectedLang, mediaRecorderRef.current) and undefined
\* (a field the response body does not have).
Null == "<null>"
Undefined == "<undefined>"
NoRecorder == 0
NoDuration == 0 - 1

VARIABLES
  isRecording,       \* useState(false)
  status,            \* useState('Tap to speak')
  liveText,          \* useState('')
  detectedLang,      \* useState<string | null>(null)
  mediaRecorderRef,  \* useRef: the session whose recorder the ref holds
  chunksRef,         \* useRef: sequence of Blobs
  nSessions,         \* number of startRecording calls made so far
  pc,                \* where each startRecording call stands
  recState,          \* MediaRecorder.state of each session's recorder
  streamOpen,        \* the session's stream has a live track
  delivered,         \* the Blobs each recorder has passed to ondataavailable
  payload,           \* the audio Blob of each session's request
  sent,              \* number of requests to /transcribe per session
  result,            \* what the upload handled last came back with
  prevText           \* liveText as the latest startRecording call found it

vars == <<isRecording, status, liveText, detectedLang, mediaRecorderRef,
          chunksRef, nSessions, pc, recState, streamOpen, delivered,
          payload, sent, result, prevText>>

uiVars == <<isRecording, status, liveText, detectedLang>>

----------------------------------------------------------------------------
(* Responses of the transcription service.                                 *)

\* outcome: "json" (fetch resolved and the body parsed), "badbody" (fetch
\* resolved, response.json() rejected) or "throw" (fetch rejected).
\* duration is in hundredths of a second.
Json(http, st, text, lang, dur, msg) ==
  [outcome |-> "json", http |-> http, status |-> st, full_text |-> text,
   language |-> lang, duration |-> dur, message |-> msg]

NoResult ==
  [outcome |-> "none", http |-> 0, status |-> Undefined,
   full_text |-> Undefined, language |-> Undefined, duration |-> NoDuration,
   message |-> Undefined]

TransportFailure == [NoResult EXCEPT !.outcome = "throw"]

BadBody(http) == [NoResult EXCEPT !.outcome = "badbody", !.http = http]

Responses ==
  { Json(200, "success", "hello world", "en", 123, Undefined),
    Json(200, "success", "salam dunya", "ur", 248, Undefined),
    Json(200, "success", "hello world", "en", NoDuration, Undefined),
    Json(200, "error", Undefined, Undefined, NoDuration, "model not loaded"),
    Json(500, "error", Undefined, Undefined, NoDuration, "model not loaded"),
    Json(200, "partial", "hello", "en", 123, "truncated"),
    Json(422, Undefined, Undefined, Undefined, NoDuration, Undefined),
    BadBody(500),
    TransportFailure }

----------------------------------------------------------------------------
(* Pure helpers.                                                           *)

\* Template-literal conversion of a string-or-undefined value.
ToStr(v) == IF v = Undefined THEN "undefined" ELSE v

Digit(d) == CASE d = 0 -> "0" [] d = 1 -> "1" [] d = 2 -> "2" [] d = 3 -> "3"
              [] d = 4 -> "4" [] d = 5 -> "5" [] d = 6 -> "6" [] d = 7 -> "7"
              [] d = 8 -> "8" [] d = 9 -> "9"

RECURSIVE IntStr(_)
IntStr(n) == IF n < 10 THEN Digit(n) ELSE IntStr(n \div 10) \o Digit(n % 10)

\* A toFixed that cuts the second decimal off instead of rounding.
ToFixed1Truncating(d) ==
  IntStr(d \div 100) \o "." \o Digit((d \div 10) % 10)

\* Number.prototype.toFixed(1) of d/100, d in hundredths of a second, for
\* d whose last digit is not 5 (there toFixed rounds the binary double).
ToFixed1(d) ==
  LET tenths == (d + 5) \div 10
  IN  IntStr(tenths \div 10) \o "." \o Digit(tenths % 10)

\* new Blob(parts): the parts' bytes, in order.
RECURSIVE Blob(_)
Blob(parts) ==
  IF parts = <<>> THEN <<>> ELSE Head(parts) \o Blob(Tail(parts))

\* mediaRecorder.ondataavailable
ondataavailable(chunks, data) ==
  IF Len(data) > 0 THEN Append(chunks, data) ELSE chunks

\* A looser test of the status tag: anything but 'error' counts as success.
IsSuccessLoose(r) == r.status # "error"

\* result.status === 'success'
IsSuccess(r) == r.status = "success"

\* A label that is the language code for every language.
langNameRaw(r) == r.language

langName(r) == IF r.language = "ur" THEN "Urdu (Romanized)" ELSE r.language

DoneStatus(r) ==
  "Done (" \o ToStr(r.language) \o ", " \o ToFixed1(r.duration) \o "s)"

\* result.duration.toFixed throws when duration is not a number.
ToFixedThrows(r) == r.duration = NoDuration

----------------------------------------------------------------------------
(* State after construction of the component.                              *)

Init ==
  /\ isRecording = FALSE
  /\ status = "Tap to speak"
  /\ liveText = ""
  /\ detectedLang = Null
  /\ mediaRecorderRef = NoRecorder
  /\ chunksRef = <<>>
  /\ nSessions = 0
  /\ pc = [s \in Sessions |-> "idle"]
  /\ recState = [s \in Sessions |-> "none"]
  /\ streamOpen = [s \in Sessions |-> FALSE]
  /\ delivered = [s \in Sessions |-> <<>>]
  /\ payload = [s \in Sessions |-> <<>>]
  /\ sent = [s \in Sessions |-> 0]
  /\ result = NoResult
  /\ prevText = ""

----------------------------------------------------------------------------
(* startRecording, up to its await of getUserMedia.                        *)

startRecording ==
  /\ nSessions < MaxSessions
  /\ nSessions' = nSessions + 1
  /\ prevText' = liveText
  /\ liveText' = ""
  /\ detectedLang' = Null
  /\ chunksRef' = <<>>
  /\ pc' = [pc EXCEPT ![nSessions + 1] = "acquiring"]
  /\ UNCHANGED <<isRecording, status, mediaRecorderRef, recState, streamOpen,
                 delivered, payload, sent, result>>

(* A stopRecording that builds and sends the request itself, at the click, *)
(* instead of leaving it to the recorder's stop event.                     *)

stopRecordingEager ==
  IF mediaRecorderRef # NoRecorder /\ recState[mediaRecorderRef] # "inactive"
  THEN /\ recState' = [recState EXCEPT ![mediaRecorderRef] = "inactive"]
       /\ pc' = [pc EXCEPT ![mediaRecorderRef] = "stopping"]
       /\ status' = "Processing..."
       /\ payload' = [payload EXCEPT ![mediaRecorderRef] = Blob(chunksRef)]
       /\ sent' = [sent EXCEPT ![mediaRecorderRef] = @ + 1]
       /\ UNCHANGED <<isRecording, liveText, detectedLang, mediaRecorderRef,
                      chunksRef, nSessions, streamOpen, delivered, result,
                      prevText>>
  ELSE UNCHANGED vars

(* stopRecording: recorder.stop() makes the recorder inactive at once and  *)
(* queues the task that fires dataavailable and stop.                      *)

stopRecording ==
  IF mediaRecorderRef # NoRecorder /\ recState[mediaRecorderRef] # "inactive"
  THEN /\ recState' = [recState EXCEPT ![mediaRecorderRef] = "inactive"]
       /\ pc' = [pc EXCEPT ![mediaRecorderRef] = "stopping"]
       /\ UNCHANGED <<uiVars, mediaRecorderRef, chunksRef, nSessions,
                      streamOpen, delivered, payload, sent, result, prevText>>
  ELSE UNCHANGED vars

(* A click on the microphone button.                                       *)

toggleRecording ==
  IF isRecording THEN stopRecording ELSE startRecording

----------------------------------------------------------------------------
(* startRecording after getUserMedia resolved: lines 24-73.                *)

getUserMediaResolved(s) ==
  /\ pc[s] = "acquiring"
  /\ streamOpen' = [streamOpen EXCEPT ![s] = TRUE]
  /\ recState' = [recState EXCEPT ![s] = "recording"]
  /\ mediaRecorderRef' = s
  /\ isRecording' = TRUE
  /\ status' = "Recording..."
  /\ pc' = [pc EXCEPT ![s] = "recording"]
  /\ UNCHANGED <<liveText, detectedLang, chunksRef, nSessions, delivered,
                 payload, sent, result, prevText>>

(* getUserMedia resolved, then new MediaRecorder(stream) (at = "ctor") or  *)
(* mediaRecorder.start() (at = "start") throws: the catch of line 75.      *)

recorderThrows(s, at) ==
  /\ pc[s] = "acquiring"
  /\ streamOpen' = [streamOpen EXCEPT ![s] = TRUE]
  /\ IF at = "start"
     THEN /\ mediaRecorderRef' = s
          /\ recState' = [recState EXCEPT ![s] = "inactive"]
     ELSE UNCHANGED <<mediaRecorderRef, recState>>
  /\ status' = "Microphone blocked"
  /\ pc' = [pc EXCEPT ![s] = "crashed"]
  /\ UNCHANGED <<isRecording, liveText, detectedLang, chunksRef, nSessions,
                 delivered, payload, sent, result, prevText>>

(* getUserMedia rejected: the catch of line 75.                            *)

getUserMediaRejected(s) ==
  /\ pc[s] = "acquiring"
  /\ status' = "Microphone blocked"
  /\ pc' = [pc EXCEPT ![s] = "rejected"]
  /\ UNCHANGED <<isRecording, liveText, detectedLang, mediaRecorderRef,
                 chunksRef, nSessions, recState, streamOpen, delivered,
                 payload, sent, result, prevText>>

----------------------------------------------------------------------------
(* The task queued by recorder.stop(): dataavailable with the recorded     *)
(* data, then stop.  onstop runs up to its await of fetch: lines 34-48.    *)

onstop(s, chunks) ==
  /\ status' = "Processing..."
  /\ payload' = [payload EXCEPT ![s] = Blob(chunks)]
  /\ sent' = [sent EXCEPT ![s] = @ + 1]
  /\ pc' = [pc EXCEPT ![s] = "uploading"]

recorderStopTask(s, data) ==
  /\ pc[s] = "stopping"
  /\ delivered' = [delivered EXCEPT ![s] = Append(@, data)]
  /\ chunksRef' = ondataavailable(chunksRef, data)
  /\ onstop(s, chunksRef')
  /\ UNCHANGED <<isRecording, liveText, detectedLang, mediaRecorderRef,
                 nSessions, recState, streamOpen, result, prevText>>

----------------------------------------------------------------------------
(* onstop after fetch and response.json() settled: lines 50-68.            *)

\* A handler whose catch also writes an error text into the transcript.
handleResultCatchWrites(r) ==
  IF r.outcome # "json"
  THEN <<"Error: upload failed", detectedLang, "Upload failed">>
  ELSE IF IsSuccess(r)
       THEN IF ToFixedThrows(r)
            THEN <<r.full_text, langName(r), "Upload failed">>
            ELSE <<r.full_text, langName(r), DoneStatus(r)>>
       ELSE <<"Error: " \o ToStr(r.message), detectedLang, "Error processing">>

\* The try block: the values of <<liveText, detectedLang, status>> it leaves.
handleResult(r) ==
  IF r.outcome # "json"
  THEN <<liveText, detectedLang, "Upload failed">>
  ELSE IF IsSuccess(r)
       THEN IF ToFixedThrows(r)
            THEN <<r.full_text, langName(r), "Upload failed">>
            ELSE <<r.full_text, langName(r), DoneStatus(r)>>
       ELSE <<"Error: " \o ToStr(r.message), detectedLang, "Error processing">>

\* A handler that sends the request again when the upload threw.
responseHandledRetry(s, r) ==
  /\ pc[s] = "uploading"
  /\ result' = r
  /\ liveText' = handleResult(r)[1]
  /\ detectedLang' = handleResult(r)[2]
  /\ status' = handleResult(r)[3]
  /\ isRecording' = FALSE
  /\ streamOpen' = [streamOpen EXCEPT ![s] = FALSE]
  /\ IF r.outcome = "throw"
     THEN sent' = [sent EXCEPT ![s] = @ + 1] /\ pc' = pc
     ELSE sent' = sent /\ pc' = [pc EXCEPT ![s] = "done"]
  /\ UNCHANGED <<mediaRecorderRef, chunksRef, nSessions, recState, delivered,
                 payload, prevText>>

responseHandled(s, r) ==
  /\ pc[s] = "uploading"
  /\ result' = r
  /\ liveText' = handleResult(r)[1]
  /\ detectedLang' = handleResult(r)[2]
  /\ status' = handleResult(r)[3]
  /\ isRecording' = FALSE
  /\ streamOpen' = [streamOpen EXCEPT ![s] = FALSE]
  /\ pc' = [pc EXCEPT ![s] = "done"]
  /\ UNCHANGED <<mediaRecorderRef, chunksRef, nSessions, recState, delivered,
                 payload, sent, prevText>>

----------------------------------------------------------------------------

\* The data of session s's recording: nothing, or one byte tagged s.
Recordings(s) == {<<>>, <<s>>}

Next ==
  \/ toggleRecording
  \/ \E s \in Sessions : getUserMediaResolved(s)
  \/ \E s \in Sessions : \E at \in {"ctor", "start"} : recorderThrows(s, at)
  \/ \E s \in Sessions : getUserMediaRejected(s)
  \/ \E s \in Sessions : \E data \in Recordings(s) : recorderStopTask(s, data)
  \/ \E s \in Sessions : \E r \in Responses : responseHandled(s, r)

Spec == Init /\ [][Next]_vars

(* Scheduling.  The event loop runs every task that is queued, so the stop *)
(* task of a stopped recorder runs.  A permission prompt and an upload in  *)
(* flight are taken to settle, and the user to click on the button while   *)
(* it shows a recording that the click can stop.  Nothing obliges the user *)
(* to start a recording.                                                   *)

Fairness ==
  /\ \A s \in Sessions :
       WF_vars(\/ getUserMediaResolved(s)
               \/ getUserMediaRejected(s)
               \/ \E at \in {"ctor", "start"} : recorderThrows(s, at))
  /\ \A s \in Sessions :
       WF_vars(\E data \in Recordings(s) : recorderStopTask(s, data))
  /\ \A s \in Sessions : WF_vars(\E r \in Responses : responseHandled(s, r))
  /\ WF_vars(isRecording /\ stopRecording)

FairSpec == Spec /\ Fairness

----------------------------------------------------------------------------
(* Vocabulary of the properties.                                           *)

Active(s) == pc[s] \in {"acquiring", "recording", "stopping", "uploading"}

\* The step handles the response to session s's upload.
Handled(s) == pc[s] = "uploading" /\ pc'[s] = "done"

\* The step is session s's mediaRecorder.start() (line 71).
BeginsCapture(s) == pc[s] = "acquiring" /\ pc'[s] = "recording"

\* toggleRecording would call startRecording (line 88).
ClickStarts == ~isRecording

DoneStatuses ==
  {DoneStatus(r) : r \in {q \in Responses : q.duration # NoDuration}}

IsDoneStatus(st) == st \in DoneStatuses

IsSuffix(t, u) ==
  Len(t) <= Len(u) /\ SubSeq(u, Len(u) - Len(t) + 1, Len(u)) = t

----------------------------------------------------------------------------
(* C1: a response to the upload of session N that is handled after a later *)
(* startRecording call has run changes none of liveText, detectedLang,     *)
(* status and isRecording.                                                 *)
StaleResponseGuard ==
  [][\A s \in Sessions :
       Handled(s) /\ nSessions > s => UNCHANGED uiVars]_vars

(* C2: when a recorder begins capture the chunk sequence is empty, the     *)
(* transcript is "" and the detected language is null; the chunks a        *)
(* session uploads are those of its own recorder only.                     *)
ResetBeforeCapture ==
  /\ [][\A s \in Sessions :
          BeginsCapture(s) =>
            chunksRef' = <<>> /\ liveText' = "" /\ detectedLang' = Null]_vars
  /\ [](\A s \in Sessions :
          sent[s] > 0 => \A i \in 1..Len(payload[s]) : payload[s][i] = s)

(* C3: at most one session is acquiring, recording or uploading, at most   *)
(* one microphone stream is open and at most one recorder is recording.    *)
AtMostOneActiveSession ==
  /\ Cardinality({s \in Sessions : Active(s)}) <= 1
  /\ Cardinality({s \in Sessions : streamOpen[s]}) <= 1
  /\ Cardinality({s \in Sessions : recState[s] = "recording"}) <= 1

(* C4: a session that has terminated (response handled, or startRecording  *)
(* ended in its catch) holds no open microphone stream.                    *)
NoLeakedMicrophone ==
  \A s \in Sessions :
    pc[s] \in {"done", "rejected", "crashed"} => ~streamOpen[s]

(* C5: while a session is in Processing (upload in flight) or in Error its *)
(* microphone stream is released.                                          *)
MicReleasedInProcessingAndError ==
  \A s \in Sessions :
    pc[s] \in {"uploading", "rejected", "crashed"} => ~streamOpen[s]

(* C6: while a session is Recording or Processing a click does not invoke  *)
(* startRecording (toggleRecording takes its stopRecording branch), and no *)
(* session is stopped or uploaded twice.                                   *)
ToggleRouting ==
  \A s \in Sessions :
    /\ pc[s] \in {"recording", "stopping", "uploading"} => ~ClickStarts
    /\ sent[s] <= 1

(* C7: when getUserMedia rejects, status becomes 'Microphone blocked', the *)
(* session has no recorder, no chunk and no request, isRecording is false  *)
(* (so the next click calls startRecording).                               *)
AcquisitionFailure ==
  /\ [][\A s \in Sessions :
          pc[s] = "acquiring" /\ pc'[s] = "rejected" =>
            status' = "Microphone blocked" /\ ~isRecording']_vars
  /\ [](\A s \in Sessions :
          pc[s] = "rejected" =>
            /\ recState[s] = "none"
            /\ delivered[s] = <<>>
            /\ sent[s] = 0)

(* C8: a session's request is sent only from the task of its recorder's    *)
(* stop event: the recorder is inactive, its data has been delivered and   *)
(* is at the end of the payload, and nothing is delivered afterwards.      *)
NoPartialSubmission ==
  /\ [](\A s \in Sessions :
          sent[s] > 0 =>
            /\ pc[s] \in {"uploading", "done"}
            /\ recState[s] = "inactive"
            /\ Len(delivered[s]) = 1
            /\ IsSuffix(Blob(delivered[s]), payload[s]))
  /\ [][\A s \in Sessions :
          /\ sent'[s] # sent[s] => pc[s] = "stopping"
          /\ sent[s] > 0 =>
               delivered'[s] = delivered[s] /\ payload'[s] = payload[s]]_vars

NoPartialSubmissionWitness ==
  \E s \in Sessions :
    /\ pc[s] = "uploading"
    /\ sent[s] = 1
    /\ delivered[s] = << <<s>> >>
    /\ payload[s] = <<s>>

(* C9: the payload of a session's upload is the concatenation of exactly   *)
(* the chunks its recorder delivered, in arrival order.                    *)
ChunkOrder ==
  \A s \in Sessions : sent[s] > 0 => payload[s] = Blob(delivered[s])

(* C10: status is a 'Done (...)' status only as the result of a response   *)
(* whose status field is 'success'; a response of any other kind, a        *)
(* transport failure or a microphone failure gives no Done status and      *)
(* does not put full_text or a language into the display.                  *)
DoneOnlyOnSuccess ==
  /\ [](IsDoneStatus(status) =>
          result.outcome = "json" /\ result.status = "success")
  /\ [][\A s \in Sessions :
          Handled(s) /\ ~(result'.outcome = "json"
                          /\ result'.status = "success") =>
            /\ ~IsDoneStatus(status')
            /\ detectedLang' = detectedLang
            /\ liveText' # result'.full_text]_vars
  /\ [][IsDoneStatus(status') /\ ~IsDoneStatus(status) =>
          \E s \in Sessions : Handled(s)]_vars

DoneOnlyOnSuccessWitness ==
  /\ status = "Done (en, 1.2s)"
  /\ liveText = "hello world"
  /\ detectedLang = "en"
  /\ result.status = "success"
  /\ \E s \in Sessions : pc[s] = "done"

----------------------------------------------------------------------------
(* The two reply shapes of the transcription service and the HTTP status   *)
(* class, as the properties below speak of them.  The handler itself       *)
(* looks at neither response.ok nor the shape (lines 45-52).               *)

Is2xx(r) == r.http >= 200 /\ r.http < 300

Documented(r) ==
  /\ r.outcome = "json"
  /\ \/ /\ r.status = "success"
        /\ r.full_text # Undefined
        /\ r.language # Undefined
        /\ r.duration # NoDuration
     \/ /\ r.status \notin {"success", Undefined}
        /\ r.message # Undefined

(* C11: a response with a non-2xx status code or a body that is not one of *)
(* the two documented shapes ends in 'Upload failed': status is never      *)
(* 'Error processing' or 'Done (...)' as the result of such a response.    *)
OtherResponsesAreTransportFailures ==
  (status = "Error processing" \/ IsDoneStatus(status)) =>
    Is2xx(result) /\ Documented(result)

(* C12: handling a JSON reply whose status is not 'success' and that has a *)
(* message m leaves status 'Error processing', liveText 'Error: ' + m,     *)
(* detectedLang null and isRecording false.                                *)
BackendReportedFailure ==
  [][\A s \in Sessions :
       (/\ Handled(s)
        /\ result'.outcome = "json"
        /\ result'.status # "success"
        /\ result'.message # Undefined) =>
         /\ status' = "Error processing"
         /\ liveText' = "Error: " \o result'.message
         /\ detectedLang' = Null
         /\ ~isRecording']_vars

(* C13 as stated: after a transport failure (fetch throws) status is       *)
(* 'Upload failed' and the transcript is the one the previous session      *)
(* left on display.                                                        *)
TransportFailureKeepsPreviousTranscript ==
  [][\A s \in Sessions :
       (/\ Handled(s)
        /\ s = nSessions
        /\ result'.outcome = "throw"
        /\ prevText # "") =>
         status' = "Upload failed" /\ liveText' = prevText]_vars

(* C13, amended: handling a transport failure sets status 'Upload failed'  *)
(* and does not modify the transcript or the detected language: liveText   *)
(* is what it was when the failure arrived, which is the text set since    *)
(* startRecording cleared it and not the previous session's transcript.    *)
TransportFailureLeavesTranscript ==
  [][\A s \in Sessions :
       Handled(s) /\ result'.outcome = "throw" =>
         /\ status' = "Upload failed"
         /\ liveText' = liveText
         /\ detectedLang' = detectedLang]_vars

TransportFailureLeavesTranscriptWitness ==
  /\ result.outcome = "throw"
  /\ status = "Upload failed"
  /\ prevText = "hello world"
  /\ liveText = ""
  /\ pc[nSessions] = "done"

(* C14: when every permission prompt and every upload settles (and the     *)
(* user stops what is recording), the controller again and again reaches a *)
(* state where isRecording is false, no recorder is running and no upload  *)
(* is in flight, so that the next click starts a recording.                *)
Retryable ==
  /\ ClickStarts
  /\ \A s \in Sessions :
       recState[s] # "recording" /\ pc[s] \notin {"stopping", "uploading"}

AlwaysRetryable == []<>Retryable

HandledSuccess(text, lang, dur) ==
  /\ \E s \in Sessions : Handled(s)
  /\ result'.outcome = "json"
  /\ result'.status = "success"
  /\ result'.full_text = text
  /\ result'.language = lang
  /\ result'.duration = dur

(* C16: after {status:'success', full_text:t, language:l, duration:d} the  *)
(* status is 'Done (l, <d to one decimal>s)' with the raw code l, the      *)
(* transcript is t and isRecording is false: 1.23 s of 'hello world' in    *)
(* 'en' gives 'Done (en, 1.2s)' and the badge 'en'; 2.48 s in 'ur' gives   *)
(* 'Done (ur, 2.5s)'.                                                      *)
SuccessRendering ==
  /\ [][HandledSuccess("hello world", "en", 123) =>
          /\ status' = "Done (en, 1.2s)"
          /\ liveText' = "hello world"
          /\ detectedLang' = "en"
          /\ ~isRecording']_vars
  /\ [][HandledSuccess("salam dunya", "ur", 248) =>
          /\ status' = "Done (ur, 2.5s)"
          /\ liveText' = "salam dunya"
          /\ ~isRecording']_vars

SuccessRenderingWitness ==
  /\ status = "Done (ur, 2.5s)"
  /\ liveText = "salam dunya"
  /\ ~isRecording
  /\ result.duration = 248

\* What the lang-badge span shows (lines 189-193): nothing for a falsy state.
langBadge == IF detectedLang \in {Null, Undefined, ""} THEN "" ELSE detectedLang

(* C17: after a success reply the language badge reads 'Urdu (Romanized)'  *)
(* exactly when the reply's language code is 'ur', and reads the code      *)
(* itself for any other code.                                              *)
LanguageLabel ==
  [][\A s \in Sessions :
       (/\ Handled(s)
        /\ result'.outcome = "json"
        /\ result'.status = "success") =>
         /\ result'.language = "ur" <=> langBadge' = "Urdu (Romanized)"
         /\ result'.language # "ur" => langBadge' = result'.language]_vars

LanguageLabelWitness ==
  /\ langBadge = "Urdu (Romanized)"
  /\ result.status = "success"
  /\ result.language = "ur"

(* C18: a recorder that is recording is the one mediaRecorderRef holds,    *)
(* and isRecording is true, so that the next click stops it.               *)
FlagAgreesWithRecorder ==
  \A s \in Sessions :
    recState[s] = "recording" => isRecording /\ mediaRecorderRef = s

(* C19: detectedLang is non-null only while status is a 'Done (...)'       *)
(* status.                                                                 *)
BadgeOnlyWhenDone ==
  detectedLang # Null => IsDoneStatus(status)

(* C20: a handler that ends with status 'Upload failed' has changed        *)
(* neither liveText nor detectedLang.                                      *)
AllOrNothing ==
  [][\A s \in Sessions :
       Handled(s) /\ status' = "Upload failed" =>
         liveText' = liveText /\ detectedLang' = detectedLang]_vars

====
